---- MODULE Spec2Model ----
(***************************************************************************)
(* A model of sptr.h: the checked handle {ptr, size, isf}, the statement   *)
(* macros sptr_alloc, sptr_at, sptr_free and sptr_mat of the checked build *)
(* and their RELEASE_MODE counterparts, running on top of a system         *)
(* allocator (malloc/free).                                                *)
(*                                                                         *)
(* The allocator is modelled by what the C standard lets it do: malloc     *)
(* returns NULL or any block that is not currently allocated (so a block   *)
(* freed earlier may be handed out again), the contents of a fresh block   *)
(* are indeterminate, and the contents of a freed block are indeterminate  *)
(* (the allocator keeps its own bookkeeping there).  A read through a      *)
(* dangling pointer therefore yields any value; a write or a free through  *)
(* a dangling pointer that hits no allocated block breaks the allocator's  *)
(* invariants and the run is followed no further (status "undefined").     *)
(* A dereference of NULL traps (status "crashed").                         *)
(*                                                                         *)
(* Request sizes are assumed to stay below SIZE_MAX / sizeof(type), so     *)
(* sizeof(type) * size does not wrap.                                      *)
(***************************************************************************)
EXTENDS Integers, Sequences, FiniteSets, TLC

\* ---------------------------------------------------------------- bounds
NumAddr   == 4    \* blocks the allocator can hand out (addresses 1..NumAddr)
NumVars   == 2    \* handle variables of the caller
MaxCount  == 1    \* largest element count requested from sptr_alloc
MaxAllocs == 2    \* sptr_alloc calls in one run
MaxVal    == 1    \* element values are 0..MaxVal
SizeTBits == 8    \* width of size_t (scaled down)

NULL == 0

Addr == 1 .. NumAddr
Vars == 1 .. NumVars
Val  == 0 .. MaxVal
Idx  == -1 .. MaxCount          \* indices the caller passes to sptr_at
SizeTMod == 2 ^ SizeTBits

\* ------------------------------------------------------- the handle type
\* typedef struct { void* ptr; size_t size; char *isf; } sptr;
\* id is a ghost field: the logical allocation (the sptr_alloc call) the
\* value was copied from, 0 for a value that came from no sptr_alloc.
sptr(p, n, f, i) == [ptr |-> p, size |-> n, isf |-> f, id |-> i]

\* sptr z = {0};  also the value of a handle variable before its first use
ZeroHandle == sptr(NULL, 0, NULL, 0)

\* ------------------------------------------------------------- the heap
\* A memory cell holds an int or char (t = "int"), a handle (t = "sptr",
\* the rows of a matrix), or an indeterminate value (t = "undef").
IntCell(v)  == [t |-> "int",   v |-> v, h |-> ZeroHandle]
SptrCell(h) == [t |-> "sptr",  v |-> 0, h |-> h]
Undef       == [t |-> "undef", v |-> 0, h |-> ZeroHandle]

\* A block that is not allocated; owner and role are ghost fields: the
\* logical allocation that holds the block, and what it holds it as.
FreeBlock == [used |-> FALSE, cells |-> <<>>, owner |-> 0, role |-> "none"]

\* What malloc returns for a request of n cells: indeterminate contents.
FreshBlock(n, o, r) ==
  [used |-> TRUE, cells |-> [j \in 1 .. n |-> Undef], owner |-> o, role |-> r]

VARIABLES
  heap,      \* Addr -> block
  hv,        \* the caller's handle variables: Vars -> sptr
  status,    \* "running" | "exited" (exit(1)) | "crashed" | "undefined"
  last,      \* the last operation and its outcome
  released,  \* ghost: logical allocations on which sptr_free has succeeded
  nextId,    \* ghost: id of the next logical allocation
  shadow,    \* ghost: per logical allocation not yet released, the value last
             \* written to each element through a handle of it (-1: none)
  fast       \* the RELEASE_MODE build run on the same operations

vars == <<heap, hv, status, last, released, nextId, shadow, fast>>

\* Blocks malloc may return: any block that is not allocated.
FreeAddrs(hp) == {a \in DOMAIN hp : ~hp[a].used}

\* p + i lies inside an allocated block
InBlock(hp, p, i) ==
  /\ p # NULL
  /\ hp[p].used
  /\ i >= 0
  /\ i < Len(hp[p].cells)

\* *(p + i) = c
Store(hp, p, i, c) ==
  [hp EXCEPT ![p].cells = [@ EXCEPT ![i + 1] = c]]

\* free(p) on a block that is allocated
Release(hp, p) == [hp EXCEPT ![p] = FreeBlock]

\* --------------------------------------------------------------- sptr_at
\* Conversion of an index to size_t for the comparison with sp.size.
ToSizeT(i) == i % SizeTMod

\* The bounds test with > written for >=.
OutOfRangeOffByOne(sp, ind) == (ToSizeT(ind) > sp.size) \/ (ind < 0)

\* (ind>=sp.size||ind<0): sp.size is a size_t, so ind is converted to size_t
\* for the first comparison.
OutOfRange(sp, ind) == (ToSizeT(ind) >= sp.size) \/ (ind < 0)

\* The values the char read *a can give: the char stored there when a is an
\* allocated cell holding one, any value when the cell's contents are
\* indeterminate or a is not allocated (dangling).
CharAt(hp, a) ==
  IF InBlock(hp, a, 0) /\ hp[a].cells[1].t = "int"
  THEN {hp[a].cells[1].v}
  ELSE 0 .. 1

\* (*sp.isf || !sp.isf) as the code evaluates it, left operand first: the
\* set of results, "trap" when the read goes through NULL.
Retired(hp, sp) ==
  IF sp.isf = NULL
  THEN {"trap"}
  ELSE {IF f # 0 \/ sp.isf = NULL THEN "yes" ELSE "no" : f \in CharAt(hp, sp.isf)}

\* The outcomes of the checks of sptr_at(type, sp, ind): the bounds check,
\* then the liveness check.
AtCheck(hp, sp, ind) ==
  IF OutOfRange(sp, ind)
  THEN {"oor"}
  ELSE {CASE r = "trap" -> "segv"
          [] r = "yes"  -> "uaf"
          [] OTHER      -> "ok" : r \in Retired(hp, sp)}

\* The values the int read *(((type*)sp.ptr)+ind) can give.
ElemValues(hp, p, i) ==
  IF InBlock(hp, p, i) /\ hp[p].cells[i + 1].t = "int"
  THEN {hp[p].cells[i + 1].v}
  ELSE Val

\* What the process is after an operation with outcome o.
StatusAfter(o) ==
  CASE o \in {"oor", "uaf", "df", "allocfail"} -> "exited"
    [] o = "segv"                               -> "crashed"
    [] o = "wild"                               -> "undefined"
    [] OTHER                                    -> "running"

\* ghost: how the flag reference of sp stands in the heap
FlagKind(hp, sp) ==
  CASE sp.isf = NULL -> "null"
    [] ~hp[sp.isf].used -> "dangling"
    [] hp[sp.isf].owner # sp.id \/ hp[sp.isf].role # "flag" -> "foreign"
    [] OTHER -> "own"

\* ghost: how the element storage of sp stands in the heap
BufKind(hp, sp) ==
  CASE sp.ptr = NULL -> "null"
    [] ~hp[sp.ptr].used -> "dangling"
    [] hp[sp.ptr].owner # sp.id \/ hp[sp.ptr].role # "buf" -> "foreign"
    [] OTHER -> "own"

\* The record of an operation: op on handle h (as it was before the
\* operation) with index ind; out is the outcome, val the value read or
\* written (0 when nothing was); the rest is ghost: whether h's logical
\* allocation had been released before, how h's flag cell and buffer stood
\* before, whether the flag was read, whether ptr + ind was dereferenced,
\* and the blocks passed to free; prev is the operation before this one
\* (its kind, its outcome, the logical allocation it was on).  For sptr_mat,
\* h is the outer handle and ind the row index; row is the row handle the
\* outer access yielded, ind2 the column index, layer the access that
\* decided the outcome and evals how often the outer access was evaluated.
Op(op, h, ind, out, val, fread, deref, fr) ==
  [op |-> op, h |-> h, ind |-> ind, out |-> out,
   val |-> IF out = "ok" THEN val ELSE 0,
   prev |-> [op |-> last.op, out |-> last.out, id |-> last.h.id],
   retired |-> h.id \in released,
   flag |-> FlagKind(heap, h), buf |-> BufKind(heap, h),
   fread |-> fread, deref |-> deref, freed |-> fr,
   row |-> ZeroHandle, ind2 |-> 0, layer |-> "none", evals |-> 0]

NoOp == [op |-> "none", h |-> ZeroHandle, ind |-> 0, out |-> "ok",
         val |-> 0, retired |-> FALSE, flag |-> "null", buf |-> "null",
         fread |-> FALSE, deref |-> FALSE, freed |-> <<>>,
         prev |-> [op |-> "none", out |-> "ok", id |-> 0],
         row |-> ZeroHandle, ind2 |-> 0, layer |-> "none", evals |-> 0]

\* x = sptr_at(int, hv[k], ind)
sptr_at_get(k, ind) ==
  /\ status = "running"
  /\ LET sp == hv[k] IN
     \E o \in AtCheck(heap, sp, ind) :
       \E v \in (IF o = "ok" THEN ElemValues(heap, sp.ptr, ind) ELSE {0}) :
         /\ status' = StatusAfter(o)
         /\ last' = Op("read", sp, ind, o, v, ~OutOfRange(sp, ind), o = "ok", <<>>)
         /\ UNCHANGED <<heap, hv, released, nextId, shadow>>

\* sptr_at(int, hv[k], ind) = v
sptr_at_set(k, ind, v) ==
  /\ status = "running"
  /\ LET sp == hv[k] IN
     \E o \in AtCheck(heap, sp, ind) :
       LET hit == InBlock(heap, sp.ptr, ind) IN
       /\ heap' = IF o = "ok" /\ hit THEN Store(heap, sp.ptr, ind, IntCell(v)) ELSE heap
       /\ status' = IF o = "ok" /\ ~hit THEN "undefined" ELSE StatusAfter(o)
       /\ last' = Op("write", sp, ind, o, v, ~OutOfRange(sp, ind), o = "ok", <<>>)
       /\ shadow' = IF o = "ok" /\ hit /\ sp.id # 0 /\ sp.id \notin released
                    THEN [shadow EXCEPT ![sp.id][ind + 1] = v]
                    ELSE shadow
       /\ UNCHANGED <<hv, released, nextId>>

\* ------------------------------------------------------------- sptr_free
\* free(p) as the allocator sees it: nothing for NULL, the block returned
\* when p is allocated; a p that is not allocated is a double free inside
\* the allocator.
FreeOk(hp, p) == p = NULL \/ hp[p].used

AfterFree(hp, p) == IF p # NULL /\ hp[p].used THEN Release(hp, p) ELSE hp

\* The body of sptr_free after its check: (*sp.isf) = 1; free(sp.ptr);
\* free(sp.isf);  the heap afterwards, and whether every step hit an
\* allocated block.
FreeBody(hp, sp) ==
  LET h1 == IF InBlock(hp, sp.isf, 0) THEN Store(hp, sp.isf, 0, IntCell(1)) ELSE hp
      h2 == AfterFree(h1, sp.ptr)
      h3 == AfterFree(h2, sp.isf)
  IN [heap |-> h3,
      clean |-> InBlock(hp, sp.isf, 0) /\ FreeOk(h1, sp.ptr) /\ FreeOk(h2, sp.isf)]

\* The outcomes of the check of sptr_free(sp): if(*sp.isf || !sp.isf)
FreeCheck(hp, sp) ==
  {CASE r = "trap" -> "segv"
     [] r = "yes"  -> "df"
     [] OTHER      -> "ok" : r \in Retired(hp, sp)}

\* sptr_free with the body moved in front of the check: the storage is
\* reclaimed whatever the check says.
sptr_free_body_first(k) ==
  /\ status = "running"
  /\ LET sp == hv[k] IN
     \E o \in FreeCheck(heap, sp) :
       LET b == FreeBody(heap, sp) IN
       /\ heap' = b.heap
       /\ status' = IF o = "ok" /\ ~b.clean THEN "undefined" ELSE StatusAfter(o)
       /\ released' = IF o = "ok" THEN released \cup {sp.id} ELSE released
       /\ last' = Op("free", sp, 0, o, 0, TRUE, FALSE,
                     IF o = "ok" THEN <<sp.ptr, sp.isf>> ELSE <<>>)
       /\ shadow' = IF o = "ok" /\ sp.id # 0
                    THEN [shadow EXCEPT ![sp.id] = <<>>]
                    ELSE shadow
       /\ UNCHANGED <<hv, nextId>>

\* sptr_free(hv[k])
sptr_free(k) ==
  /\ status = "running"
  /\ LET sp == hv[k] IN
     \E o \in FreeCheck(heap, sp) :
       LET b == FreeBody(heap, sp) IN
       /\ heap' = IF o = "ok" THEN b.heap ELSE heap
       /\ status' = IF o = "ok" /\ ~b.clean THEN "undefined" ELSE StatusAfter(o)
       /\ released' = IF o = "ok" THEN released \cup {sp.id} ELSE released
       /\ last' = Op("free", sp, 0, o, 0, TRUE, FALSE,
                     IF o = "ok" THEN <<sp.ptr, sp.isf>> ELSE <<>>)
       /\ shadow' = IF o = "ok" /\ sp.id # 0
                    THEN [shadow EXCEPT ![sp.id] = <<>>]
                    ELSE shadow
       /\ UNCHANGED <<hv, nextId>>

\* ------------------------------------------------------------ sptr_alloc
\* The heap after void *p = malloc(sizeof(type) * size); char *isf =
\* malloc(sizeof(char)); where malloc returned p and f (NULL: it failed).
AfterMallocs(hp, p, n, f, id) ==
  LET h1 == IF p = NULL THEN hp ELSE [hp EXCEPT ![p] = FreshBlock(n, id, "buf")]
  IN IF f = NULL THEN h1 ELSE [h1 EXCEPT ![f] = FreshBlock(1, id, "flag")]

\* The outcome of sptr_alloc when malloc returned p and f: *isf = 0 comes
\* before the test of p, and isf is never tested.
AllocOutcome(p, f) ==
  IF f = NULL THEN "segv"
  ELSE IF p = NULL THEN "allocfail"
  ELSE "ok"

\* hv[k] = sptr_alloc(int, n)
sptr_alloc(k, n) ==
  /\ status = "running"
  /\ nextId <= MaxAllocs
  /\ \E p \in {NULL} \cup FreeAddrs(heap) :
       \E f \in {NULL} \cup (FreeAddrs(heap) \ {p}) :
         LET o  == AllocOutcome(p, f)
             h1 == AfterMallocs(heap, p, n, f, nextId)
             h2 == IF f # NULL THEN Store(h1, f, 0, IntCell(0)) ELSE h1
             sp == sptr(p, ToSizeT(n), f, nextId)
         IN /\ heap' = h2
            /\ hv' = IF o = "ok" THEN [hv EXCEPT ![k] = sp] ELSE hv
            /\ status' = StatusAfter(o)
            /\ last' = [Op("alloc", sp, n, o, 0, FALSE, FALSE, <<>>)
                          EXCEPT !.flag = "own", !.buf = "own"]
            /\ nextId' = nextId + 1
            /\ shadow' = IF o = "ok"
                         THEN [shadow EXCEPT ![nextId] = [j \in 1 .. n |-> -1]]
                         ELSE shadow
            /\ UNCHANGED released

\* A copy that does not carry the count over.
sptr_copy_without_size(k1, k2) ==
  /\ status = "running"
  /\ k1 # k2
  /\ hv[k2] # hv[k1]
  /\ hv' = [hv EXCEPT ![k2] = [hv[k1] EXCEPT !.size = 0]]
  /\ last' = Op("copy", hv[k1], 0, "ok", 0, FALSE, FALSE, <<>>)
  /\ UNCHANGED <<heap, status, released, nextId, shadow>>

\* hv[k2] = hv[k1]: a handle is a value; the copy shares ptr and isf
sptr_copy(k1, k2) ==
  /\ status = "running"
  /\ k1 # k2
  /\ hv[k2] # hv[k1]
  /\ hv' = [hv EXCEPT ![k2] = hv[k1]]
  /\ last' = Op("copy", hv[k1], 0, "ok", 0, FALSE, FALSE, <<>>)
  /\ UNCHANGED <<heap, status, released, nextId, shadow>>

\* ---------------------------------------------------------- RELEASE_MODE
\* typedef struct { void* ptr; int size;} sptr;
fsptr(p, n) == [ptr |-> p, size |-> n]

\* The RELEASE_MODE build before its first operation: its heap (one block
\* per sptr_alloc, no flag cells), its handle variables, the value of its
\* last read and whether that read was of a cell holding a value (det), and
\* whether it is still running.
FastInit ==
  [heap |-> [a \in 1 .. MaxAllocs |-> FreeBlock],
   hv |-> [k \in Vars |-> fsptr(NULL, 0)],
   val |-> 0,
   det |-> FALSE,
   status |-> "running"]

\* #define sptr_alloc(type, size) ((sptr){malloc(sizeof(type)*size),size})
\* where malloc returned p; id is the ghost owner of the block.
FastAlloc(f, k, n, p, id) ==
  [f EXCEPT !.heap[p] = FreshBlock(n, id, "buf"), !.hv[k] = fsptr(p, n)]

\* #define sptr_at(type, sp, ind) (*(((type*)sp.ptr)+ind)): the values a read
\* can give, and whether the cell read holds a value
FastValues(f, k, ind) == ElemValues(f.heap, f.hv[k].ptr, ind)

FastDet(f, k, ind) ==
  /\ InBlock(f.heap, f.hv[k].ptr, ind)
  /\ f.heap[f.hv[k].ptr].cells[ind + 1].t = "int"

\* sptr_at(type, sp, ind) = v
FastSet(f, k, ind, v) ==
  IF InBlock(f.heap, f.hv[k].ptr, ind)
  THEN [f EXCEPT !.heap = Store(f.heap, f.hv[k].ptr, ind, IntCell(v))]
  ELSE [f EXCEPT !.status = "undefined"]

\* #define sptr_free(sp) free(sp.ptr)
FastFree(f, k) ==
  IF FreeOk(f.heap, f.hv[k].ptr)
  THEN [f EXCEPT !.heap = AfterFree(f.heap, f.hv[k].ptr)]
  ELSE [f EXCEPT !.status = "undefined"]

\* hv[k2] = hv[k1]
FastCopy(f, k1, k2) == [f EXCEPT !.hv[k2] = f.hv[k1]]

\* Both builds run the same operation.  Only operations the checked build
\* completes without reporting an error are followed (the sequences the
\* comparison is about), and the comparison ends once the RELEASE_MODE
\* build has left defined behaviour.  val and det describe the last
\* operation only.
Follow(f) ==
  /\ fast.status = "running"
  /\ fast' = f

Quiet(f) == [f EXCEPT !.val = 0, !.det = FALSE]

BothAlloc(k, n) ==
  /\ sptr_alloc(k, n)
  /\ last'.out = "ok"
  /\ \E p \in FreeAddrs(fast.heap) :
       Follow(Quiet(FastAlloc(fast, k, n, p, nextId)))

BothRead(k, ind) ==
  /\ sptr_at_get(k, ind)
  /\ last'.out = "ok"
  /\ \E v \in FastValues(fast, k, ind) :
       Follow([fast EXCEPT !.val = v, !.det = FastDet(fast, k, ind)])

BothWrite(k, ind, v) ==
  /\ sptr_at_set(k, ind, v)
  /\ last'.out = "ok"
  /\ Follow(Quiet(FastSet(fast, k, ind, v)))

BothFree(k) ==
  /\ sptr_free(k)
  /\ last'.out = "ok"
  /\ Follow(Quiet(FastFree(fast, k)))

BothCopy(k1, k2) ==
  /\ sptr_copy(k1, k2)
  /\ Follow(Quiet(FastCopy(fast, k1, k2)))

NextFast ==
  \/ \E k \in Vars, n \in 0 .. MaxCount : BothAlloc(k, n)
  \/ \E k \in Vars, i \in Idx : BothRead(k, i)
  \/ \E k \in Vars, i \in Idx, v \in Val : BothWrite(k, i, v)
  \/ \E k \in Vars : BothFree(k)
  \/ \E k1 \in Vars, k2 \in Vars : BothCopy(k1, k2)

\* ------------------------------------------------- the checked build alone
Alloc(k, n) == sptr_alloc(k, n) /\ UNCHANGED fast

AtRead(k, ind) == sptr_at_get(k, ind) /\ UNCHANGED fast

AtWrite(k, ind, v) == sptr_at_set(k, ind, v) /\ UNCHANGED fast

Free(k) == sptr_free(k) /\ UNCHANGED fast

Copy(k1, k2) == sptr_copy(k1, k2) /\ UNCHANGED fast

\* --------------------------------------------------------- specification
Init ==
  /\ fast = FastInit
  /\ heap = [a \in Addr |-> FreeBlock]
  /\ hv = [k \in Vars |-> ZeroHandle]
  /\ status = "running"
  /\ last = NoOp
  /\ released = {}
  /\ nextId = 1
  /\ shadow = [a \in 1 .. MaxAllocs |-> <<>>]

Next ==
  \/ \E k \in Vars, n \in 0 .. MaxCount : Alloc(k, n)
  \/ \E k \in Vars, i \in Idx : AtRead(k, i)
  \/ \E k \in Vars, i \in Idx, v \in Val : AtWrite(k, i, v)
  \/ \E k \in Vars : Free(k)
  \/ \E k1 \in Vars, k2 \in Vars : Copy(k1, k2)

Spec == Init /\ [][Next]_vars

\* The checked build and the RELEASE_MODE build side by side.
SpecFast == Init /\ [][NextFast]_vars

\* -------------------------------------------------------------- sptr_mat
\* The rows of the matrix of the specification's example, and the matrix
\* variables: hv[MatVar] is the outer handle, hv[RowVar] takes a row handle.
RowCounts == <<3, 1, 5>>
MatVar == 1
RowVar == 2

\* The values the read *(((sptr*)p)+i) can give: the handle stored there, or,
\* for an indeterminate read, one of the handle values the program holds.
RowValues(hp, p, i) ==
  IF InBlock(hp, p, i) /\ hp[p].cells[i + 1].t = "sptr"
  THEN {hp[p].cells[i + 1].h}
  ELSE {ZeroHandle} \cup {hv[k] : k \in Vars}

\* sptr_mat(type, sp, i, j) is sptr_at(type, sptr_at(sptr, sp, i), j): the
\* inner sptr_at names its handle argument four times (.size, *.isf, !.isf,
\* .ptr), so the outer access, checks included, is evaluated up to four
\* times.  The set of results: the outcome, the layer that decided it, the
\* number of evaluations of the outer access, and the row handle.
MatResults(hp, sp, i, j) ==
  LET O == AtCheck(hp, sp, i)
      R(o, l, n, r) == [out |-> o, layer |-> l, evals |-> n, row |-> r]
      Fail(n, r) == {R(o, "outer", n, r) : o \in O \ {"ok"}}
      Rows == IF "ok" \in O THEN RowValues(hp, sp.ptr, i) ELSE {}
      Inner(r) ==
        IF OutOfRange(r, j)
        THEN {R("oor", "row", 1, r)}
        ELSE Fail(2, r) \cup
             UNION {CASE q = "trap" -> {R("segv", "row", 2, r)}
                      [] q = "yes"  -> {R("uaf", "row", 2, r)}
                      [] OTHER      -> Fail(3, r) \cup Fail(4, r)
                                         \cup {R("ok", "row", 4, r)}
                    : q \in Retired(hp, r)}
  IN Fail(1, ZeroHandle) \cup UNION {Inner(r) : r \in Rows}

\* x = sptr_mat(int, hv[MatVar], i, j)
sptr_mat_get(i, j) ==
  /\ status = "running"
  /\ LET sp == hv[MatVar] IN
     \E m \in MatResults(heap, sp, i, j) :
       \E v \in (IF m.out = "ok" THEN ElemValues(heap, m.row.ptr, j) ELSE {0}) :
         /\ status' = StatusAfter(m.out)
         /\ last' = [Op("mat", sp, i, m.out, v, ~OutOfRange(sp, i), m.out = "ok", <<>>)
                       EXCEPT !.row = m.row, !.ind2 = j,
                              !.layer = m.layer, !.evals = m.evals]
         /\ UNCHANGED <<heap, hv, released, nextId, shadow>>

\* hv[RowVar] = sptr_at(sptr, hv[MatVar], i)
sptr_at_row(i) ==
  /\ status = "running"
  /\ LET sp == hv[MatVar] IN
     \E o \in AtCheck(heap, sp, i) :
       \E r \in (IF o = "ok" THEN RowValues(heap, sp.ptr, i) ELSE {ZeroHandle}) :
         /\ hv' = IF o = "ok" THEN [hv EXCEPT ![RowVar] = r] ELSE hv
         /\ status' = StatusAfter(o)
         /\ last' = [Op("row", sp, i, o, 0, ~OutOfRange(sp, i), o = "ok", <<>>)
                       EXCEPT !.row = r]
         /\ UNCHANGED <<heap, released, nextId, shadow>>

\* The heap once sptr_alloc got blocks p and f from malloc for n elements.
Allocated(hp, p, n, f, id) == Store(AfterMallocs(hp, p, n, f, id), f, 0, IntCell(0))

\* The matrix of the example, built by
\*   m = sptr_alloc(sptr, 3);
\*   sptr_at(sptr, m, r) = sptr_alloc(int, RowCounts[r]);   r = 0, 1, 2
\* with malloc handing out its blocks in address order.
NumRows == Len(RowCounts)
RowHandle(r) == sptr(2 * r + 1, RowCounts[r], 2 * r + 2, r + 1)
OuterHandle == sptr(1, NumRows, 2, 1)

RECURSIVE MatHeap(_)
MatHeap(r) ==
  IF r = 0
  THEN Allocated([a \in 1 .. 2 * (NumRows + 1) |-> FreeBlock],
                 OuterHandle.ptr, NumRows, OuterHandle.isf, OuterHandle.id)
  ELSE Store(Allocated(MatHeap(r - 1), RowHandle(r).ptr, RowCounts[r],
                       RowHandle(r).isf, RowHandle(r).id),
             OuterHandle.ptr, r - 1, SptrCell(RowHandle(r)))

MatRead(i, j) == sptr_mat_get(i, j) /\ UNCHANGED fast

MatRow(i) == sptr_at_row(i) /\ UNCHANGED fast

InitMat ==
  /\ fast = FastInit
  /\ heap = MatHeap(NumRows)
  /\ hv = [k \in Vars |-> IF k = MatVar THEN OuterHandle ELSE ZeroHandle]
  /\ status = "running"
  /\ last = NoOp
  /\ released = {}
  /\ nextId = NumRows + 2
  /\ shadow = [a \in 1 .. NumRows + 1 |-> <<>>]

\* row and column indices the caller passes to sptr_mat
MatIdx ==
  -1 .. CHOOSE n \in {RowCounts[r] : r \in DOMAIN RowCounts} :
          \A r \in DOMAIN RowCounts : RowCounts[r] <= n

NextMat ==
  \/ \E i \in MatIdx, j \in MatIdx : MatRead(i, j)
  \/ \E i \in MatIdx : MatRow(i)
  \/ \E k \in Vars : Free(k)

SpecMat == InitMat /\ [][NextMat]_vars

\* ------------------------------------------- either program, in one graph
\* A run is either the caller's program on int arrays (Init, Next) or the
\* program on the example matrix (InitMat, NextMat).
IsMatrixRun == hv[MatVar].size = NumRows /\ DOMAIN heap = DOMAIN MatHeap(0)

InitAll == Init \/ InitMat

NextAll ==
  \/ \E k \in Vars, n \in 0 .. MaxCount : ~IsMatrixRun /\ Alloc(k, n)
  \/ \E k \in Vars, i \in Idx : ~IsMatrixRun /\ AtRead(k, i)
  \/ \E k \in Vars, i \in Idx, v \in Val : ~IsMatrixRun /\ AtWrite(k, i, v)
  \/ \E k \in Vars : ~IsMatrixRun /\ Free(k)
  \/ \E k1 \in Vars, k2 \in Vars : ~IsMatrixRun /\ Copy(k1, k2)
  \/ \E i \in MatIdx, j \in MatIdx : IsMatrixRun /\ MatRead(i, j)
  \/ \E i \in MatIdx : IsMatrixRun /\ MatRow(i)
  \/ \E k \in Vars : IsMatrixRun /\ Free(k)

SpecAll == InitAll /\ [][NextAll]_vars

\* ------------------------------------------------- the steps of the macros
\* The text of the diagnostic each detected violation prints with fprintf.
Diagnostic(o) ==
  CASE o = "allocfail" -> "memory allocation failed"
    [] o = "oor"       -> "index out of the range"
    [] o = "uaf"       -> "use after free"
    [] o = "df"        -> "double free"
    [] OTHER           -> "none"

Diagnostics == {Diagnostic(o) : o \in {"allocfail", "oor", "uaf", "df"}}

\* The argument of exit() after a diagnostic.
ExitStatus == 1

\* The same without the exit(1): the macro goes on after the fprintf.
ReportNoExit(o) == <<Diagnostic(o)>>

\* fprintf(stderr, ...), exit(1) as the macros write it
Report(o) == <<Diagnostic(o), "exit">>

\* The steps sptr_at executes, in order, for each outcome of its checks: the
\* bounds test, the read of *sp.isf, the dereference of ptr + ind.
AtSteps(o) ==
  CASE o = "oor"  -> <<"bounds">> \o Report(o)
    [] o = "uaf"  -> <<"bounds", "readflag">> \o Report(o)
    [] o = "segv" -> <<"bounds", "readflag", "trap">>
    [] OTHER      -> <<"bounds", "readflag", "deref">>

\* The steps of sptr_free.
FreeSteps(o) ==
  CASE o = "df"   -> <<"readflag">> \o Report(o)
    [] o = "segv" -> <<"readflag", "trap">>
    [] OTHER      -> <<"readflag", "writeflag", "free", "free">>

\* The steps of sptr_alloc: *isf = 0 comes before the test of p.
AllocSteps(o) ==
  CASE o = "segv"      -> <<"malloc", "malloc", "trap">>
    [] o = "allocfail" -> <<"malloc", "malloc", "writeflag">> \o Report(o)
    [] OTHER           -> <<"malloc", "malloc", "writeflag">>

\* sptr_mat: the steps of the inner sptr_at between the (n-1)th and the nth
\* evaluation of its handle argument (ind>=X.size | *X.isf | !X.isf | X.ptr).
InnerBefore(n) ==
  CASE n = 2 -> <<"bounds">>
    [] n = 3 -> <<"readflag">>
    [] OTHER -> <<>>

\* The steps up to the nth evaluation of the outer access, the first n - 1
\* having passed.
RECURSIVE MatPrefix(_)
MatPrefix(n) ==
  IF n <= 1 THEN <<>>
  ELSE MatPrefix(n - 1) \o AtSteps("ok") \o InnerBefore(n)

\* The steps of the inner sptr_at that decide its outcome.
InnerLast(o) ==
  CASE o = "oor"  -> <<"bounds">> \o Report(o)
    [] o = "uaf"  -> <<"readflag">> \o Report(o)
    [] o = "segv" -> <<"readflag", "trap">>
    [] OTHER      -> <<"deref">>

MatSteps(o, layer, n) ==
  IF layer = "outer"
  THEN MatPrefix(n) \o AtSteps(o)
  ELSE MatPrefix(n) \o AtSteps("ok") \o InnerLast(o)

\* The steps the operation recorded in r executed.
Steps(r) ==
  CASE r.op \in {"read", "write", "row"} -> AtSteps(r.out)
    [] r.op = "free"  -> FreeSteps(r.out)
    [] r.op = "alloc" -> AllocSteps(r.out)
    [] r.op = "mat"   -> MatSteps(r.out, r.layer, r.evals)
    [] OTHER          -> <<>>

\* The exit status of the process after the operation recorded in r, -1
\* when it did not call exit.
ExitCode(r) ==
  IF \E n \in DOMAIN Steps(r) : Steps(r)[n] = "exit" THEN ExitStatus ELSE -1

\* ------------------------------------------------------------ properties
IsAccess(r) == r.op \in {"read", "write"}

\* the index of r lies in [0, count) of the handle r was made on
InRange(r) == 0 <= r.ind /\ r.ind < r.h.size

\* r directly follows the successful operation op on the same logical
\* allocation
Follows(r, op) ==
  r.h.id # 0 /\ r.prev.op = op /\ r.prev.out = "ok" /\ r.prev.id = r.h.id

\* C1: after release(h1) has succeeded, an access with a valid index through
\* any copy h2 of h1 fails with UseAfterFree and a release through any copy
\* fails with DoubleFree.
C1_RetiredThroughEveryCopy ==
  Follows(last, "free") =>
    /\ (IsAccess(last) /\ InRange(last) => last.out = "uaf")
    /\ (last.op = "free" => last.out = "df")

\* C2: retirement is permanent: whatever happened since the release (further
\* sptr_alloc calls included), an access or release through a copy of a
\* retired handle never passes the liveness check, never dereferences and
\* never frees storage.
C2_RetirementPermanent ==
  (last.retired /\ (IsAccess(last) \/ last.op = "free")) =>
    /\ last.out \in {"oor", "uaf", "df"}
    /\ ~last.deref
    /\ last.freed = <<>>

\* C3: of two releases of the same handle the first succeeds and the second
\* fails with DoubleFree and hands nothing to free(), so free() never gets a
\* block that is not allocated.
C3_ReleaseTwice ==
  /\ (last.op = "free" /\ Follows(last, "alloc") => last.out = "ok")
  /\ (last.op = "free" /\ last.retired => last.out = "df" /\ last.freed = <<>>)
  /\ (last.op = "free" => status # "undefined")

\* C4: directly after h = sptr_alloc(T, n), sptr_at(T, h, i) succeeds (both
\* checks pass and h.ptr + i is an element of h's own block) for every i with
\* 0 <= i < n, and fails with IndexOutOfRange for every other i.
C4_FreshAccessBounds ==
  (IsAccess(last) /\ Follows(last, "alloc")) =>
    IF InRange(last)
    THEN last.out = "ok" /\ last.buf = "own" /\ status = "running"
         /\ InBlock(heap, last.h.ptr, last.ind)
    ELSE last.out = "oor" /\ status = "exited"

C4_Witness ==
  /\ IsAccess(last) /\ Follows(last, "alloc")
  /\ InRange(last) /\ last.out = "ok"

\* C5: a handle without a flag cell (isf = NULL) is treated like a freed one:
\* an access with a valid index reports UseAfterFree, a release reports
\* DoubleFree, and neither reads through the NULL flag reference.
C5_UntrackedHandle ==
  last.flag = "null" =>
    /\ (IsAccess(last) /\ InRange(last) => last.out = "uaf")
    /\ (last.op = "free" => last.out = "df")
    /\ ((IsAccess(last) \/ last.op = "free") => status # "crashed")

\* C6: sptr_alloc reports AllocationFailure whenever one of its two malloc
\* calls fails (last.h holds what they returned), and a handle it returns
\* has an allocated buffer and an allocated flag cell that reads 0.
C6_AllocFailFast ==
  last.op = "alloc" =>
    /\ (last.h.ptr = NULL \/ last.h.isf = NULL => last.out = "allocfail")
    /\ (last.out = "ok" =>
          /\ InBlock(heap, last.h.isf, 0) /\ CharAt(heap, last.h.isf) = {0}
          /\ last.h.ptr # NULL /\ heap[last.h.ptr].used)

\* C7: a read through a handle of an allocation that has not been released,
\* at a valid index that was written before, returns the value last written
\* there, whatever was done to other indices and other handles in between.
C7_WriteReadRoundTrip ==
  (last.op = "read" /\ last.h.id # 0 /\ ~last.retired /\ InRange(last)
     /\ shadow[last.h.id][last.ind + 1] # -1) =>
    /\ last.out = "ok"
    /\ last.val = shadow[last.h.id][last.ind + 1]

\* C8: sptr_at checks the bounds first and the liveness second: on a retired
\* handle an index out of range reports IndexOutOfRange, an index in range
\* reports UseAfterFree, and ptr + ind is formed only after both checks
\* passed.
C8_CheckOrder ==
  IsAccess(last) =>
    /\ (~InRange(last) => last.out = "oor" /\ ~last.fread)
    /\ (last.retired /\ InRange(last) => last.out = "uaf")
    /\ (last.deref => InRange(last) /\ last.fread /\ last.out = "ok")

\* C9: sptr_mat(T, m, i, j) applies the access to m at i and then to row i at
\* j, each with its own bounds and liveness check: a row index out of range
\* is IndexOutOfRange at the outer layer before the column is looked at, a
\* released outer handle is UseAfterFree at the outer layer, a column outside
\* row i's own count is IndexOutOfRange at the row layer, a released row is
\* UseAfterFree at the row layer, and anything else succeeds; so for rows
\* <<3, 1, 5>>, (1, 0) succeeds and (1, 1) and (3, 0) are IndexOutOfRange.
C9_MatrixAccess ==
  last.op = "mat" =>
    LET i == last.ind
        j == last.ind2
    IN IF ~(0 <= i /\ i < last.h.size)
         THEN last.out = "oor" /\ last.layer = "outer" /\ last.evals = 1
       ELSE IF last.h.id \in released
         THEN last.out = "uaf" /\ last.layer = "outer"
       ELSE IF ~(0 <= j /\ j < RowCounts[i + 1])
         THEN last.out = "oor" /\ last.layer = "row"
       ELSE IF RowHandle(i + 1).id \in released
         THEN last.out = "uaf" /\ last.layer = "row"
       ELSE last.out = "ok" /\ last.row = RowHandle(i + 1)

\* What holds of C9: as long as neither the outer handle nor the row has been
\* released, sptr_mat decides as C9 says.
MatLiveAccess ==
  (last.op = "mat" /\ last.h.id \notin released
     /\ (0 <= last.ind /\ last.ind < NumRows =>
           RowHandle(last.ind + 1).id \notin released)) =>
    C9_MatrixAccess

\* The element blocks a heap holds: the logical allocation and the contents.
LiveBufs(hp) ==
  {[id |-> hp[a].owner, cells |-> hp[a].cells] :
     a \in {b \in DOMAIN hp : hp[b].used /\ hp[b].role = "buf"}}

\* C10: on every sequence of operations the checked build completes without
\* reporting an error, the RELEASE_MODE build runs the same sequence with
\* the same values read and the same element blocks allocated and released.
\* Stated in the form most favourable to the code: only reads of cells that
\* hold a value in both builds are compared, and flag cells are not counted
\* as blocks.
C10_FastRefines ==
  (status = "running" /\ last.out = "ok") =>
    /\ fast.status = "running"
    /\ (last.op = "read" /\ fast.det
          /\ Cardinality(ElemValues(heap, last.h.ptr, last.ind)) = 1
        => fast.val = last.val)
    /\ LiveBufs(heap) = LiveBufs(fast.heap)

Detected == {"allocfail", "oor", "uaf", "df"}

\* C11: an operation that detects a violation (AllocationFailure,
\* IndexOutOfRange, UseAfterFree, DoubleFree) prints exactly one diagnostic,
\* the one naming that violation, calls exit with a non-zero status as its
\* next and last step, and the process has terminated; an operation that
\* detected nothing prints no diagnostic and does not exit.  For sptr_mat
\* this covers every evaluation of the outer access.
C11_ViolationTerminal ==
  LET s == Steps(last)
      D == {n \in DOMAIN s : s[n] \in Diagnostics}
  IN IF last.out \in Detected
     THEN /\ D = {Len(s) - 1}
          /\ s[Len(s) - 1] = Diagnostic(last.out)
          /\ s[Len(s)] = "exit"
          /\ ExitCode(last) # 0
          /\ status = "exited"
          /\ last.freed = <<>>
     ELSE /\ D = {}
          /\ ExitCode(last) = -1
          /\ status # "exited"

C11_Witness ==
  /\ last.op = "mat"
  /\ last.out \in Detected
  /\ last.evals >= 2
  /\ status = "exited"

\* sp is a handle of a logical allocation that has not been released through
\* any of its copies
Live(sp) == sp.id # 0 /\ sp.id \notin released

\* C12: as long as the process runs, every handle of a logical allocation
\* that has not been released has a flag cell that is allocated, its own and
\* reads 0, and a buffer that is an allocated block of its own with size
\* elements, whatever was done through other handles (stale ones included);
\* so an access at a valid index and the first release on it succeed.
C12_NoSpuriousErrors ==
  status = "running" =>
    /\ \A k \in Vars :
         Live(hv[k]) =>
           /\ FlagKind(heap, hv[k]) = "own"
           /\ CharAt(heap, hv[k].isf) = {0}
           /\ BufKind(heap, hv[k]) = "own"
           /\ Len(heap[hv[k].ptr].cells) = hv[k].size
    /\ ((IsAccess(last) \/ last.op = "free")
          /\ last.h.id # 0 /\ ~last.retired
          /\ (IsAccess(last) => InRange(last))
        => last.out = "ok")

\* C13: the flag read through any handle of a logical allocation is 0 from
\* the allocation until the release and 1 ever after; the only write to a
\* flag after its initialisation is that of the one successful release, made
\* on a handle that was not retired, to that handle's own flag cell.
C13_FlagWrittenOnce ==
  status # "undefined" =>
    /\ \A k \in Vars :
         hv[k].id # 0 =>
           CharAt(heap, hv[k].isf) = (IF hv[k].id \in released THEN {1} ELSE {0})
    /\ (last.op = "free" /\ last.out = "ok" =>
          ~last.retired /\ last.flag = "own")

\* C14: whenever sptr_at or sptr_free reads (or writes) the flag *sp.isf, the
\* cell it reads is currently allocated: it is never a cell that has been
\* given back to the allocator.
C14_FlagReadAllocated ==
  ((IsAccess(last) \/ last.op = "free") /\ last.fread) =>
    last.flag # "dangling"

\* the blocks currently allocated
Outstanding(hp) == {a \in DOMAIN hp : hp[a].used}

\* C15: while the process runs, the number of allocated blocks is twice the
\* number of logical allocations not yet released (every sptr_alloc so far
\* has succeeded, or the process would have ended); a release hands free()
\* two blocks, the buffer and the flag cell, both allocated at that moment;
\* and once everything allocated has been released no block is allocated.
C15_StorageAccounting ==
  /\ status = "running" =>
       Cardinality(Outstanding(heap)) = 2 * ((nextId - 1) - Cardinality(released))
  /\ (last.op = "free" /\ last.out = "ok" =>
        /\ last.freed = <<last.h.ptr, last.h.isf>>
        /\ last.buf # "dangling" /\ last.flag # "dangling"
        /\ status = "running")

\* C16: a sptr_free that reports DoubleFree has made its check before
\* reclaiming anything: it calls neither free() nor writes the flag, and the
\* heap (flags, buffer contents, blocks) and every handle are as before; a
\* sptr_free that succeeds writes the flag before its two free() calls, and
\* both blocks are gone afterwards.
C16_CheckBeforeReclaim ==
  [][ (last'.op = "free" /\ last'.out = "df" =>
         /\ heap' = heap
         /\ hv' = hv
         /\ last'.freed = <<>>
         /\ \A n \in DOMAIN Steps(last') :
              Steps(last')[n] \notin {"free", "writeflag"})
      /\ (last'.op = "free" /\ last'.out = "ok" =>
            /\ Steps(last') = <<"readflag", "writeflag", "free", "free">>
            /\ last'.freed = <<last'.h.ptr, last'.h.isf>>
            /\ (status' = "running" =>
                  ~heap'[last'.h.ptr].used /\ ~heap'[last'.h.isf].used)) ]_vars

C16_Witness ==
  /\ last.op = "free"
  /\ last.out = "df"
  /\ Outstanding(heap) # {}

\* C17: a successful write through sptr_at(T, h, i) changes element i of the
\* buffer of h's own logical allocation and nothing else (no other element,
\* no other block, no flag, no handle); a successful sptr_free(h) changes
\* only blocks of h's own logical allocation and no handle.
C17_Isolation ==
  [][ LET h == last'.h
          Changed == {a \in DOMAIN heap : heap'[a] # heap[a]}
      IN /\ (last'.op = "write" /\ last'.out = "ok" =>
               /\ status' = "running"
               /\ hv' = hv
               /\ \A a \in Changed :
                    /\ a = h.ptr
                    /\ heap[a].owner = h.id /\ heap[a].role = "buf"
                    /\ heap'[a].used
                    /\ \A j \in DOMAIN heap[a].cells :
                         j # last'.ind + 1 => heap'[a].cells[j] = heap[a].cells[j])
         /\ (last'.op = "free" /\ last'.out = "ok" =>
               /\ hv' = hv
               /\ \A a \in Changed : heap[a].owner = h.id) ]_vars

\* C18: the handle sptr_alloc returns has the requested count as its size;
\* sptr_at and sptr_free change no handle; a handle variable only ever
\* changes to the handle just allocated or to an unchanged copy of another
\* variable's handle, so all handles of one logical allocation agree in size
\* and ptr; and the bounds check of sptr_at depends on ind and size alone,
\* on a retired handle as on a live one.
C18_CountFixed ==
  [][ /\ (last'.op = "alloc" /\ last'.out = "ok" =>
            /\ last'.h.size = last'.ind
            /\ \E k \in Vars : hv'[k] = last'.h)
      /\ (IsAccess(last') \/ last'.op = "free" => hv' = hv)
      /\ \A k \in Vars :
           hv'[k] # hv[k] =>
             \/ last'.op = "alloc" /\ hv'[k] = last'.h
             \/ last'.op = "copy" /\ hv'[k] = last'.h
                  /\ \E k1 \in Vars \ {k} : hv[k1] = last'.h /\ hv'[k1] = hv[k1]
      /\ \A k1 \in Vars, k2 \in Vars :
           hv'[k1].id = hv'[k2].id => hv'[k1] = hv'[k2]
      /\ (IsAccess(last') => (last'.out = "oor" <=> ~InRange(last'))) ]_vars

C18_Witness ==
  /\ IsAccess(last) /\ last.retired
  /\ last.out = "oor"
  /\ last.h.size > 0
  /\ \E k1 \in Vars, k2 \in Vars : k1 # k2 /\ hv[k1] = last.h /\ hv[k2] = last.h

\* C19: sptr_alloc(T, 0), when the allocator has memory (the one-byte request
\* for the flag cell, made right after, succeeds), reports no failure and
\* returns a handle of size 0 whose flag reads 0; every sptr_at on a handle
\* of size 0 reports IndexOutOfRange, whatever the index; the first
\* sptr_free on it succeeds and every later one reports DoubleFree.
C19_ZeroCount ==
  /\ (last.op = "alloc" /\ last.ind = 0 /\ last.h.isf # NULL =>
        /\ last.out = "ok"
        /\ last.h.size = 0
        /\ CharAt(heap, last.h.isf) = {0})
  /\ (IsAccess(last) /\ last.h.id # 0 /\ last.h.size = 0 =>
        last.out = "oor")
  /\ (last.op = "free" /\ last.h.id # 0 /\ last.h.size = 0 =>
        last.out = (IF last.retired THEN "df" ELSE "ok"))

====
